---- MODULE Spec2Model ----
(***************************************************************************)
(* code-planner: plan generation (GeminiPlanner, createBasicPlan), the     *)
(* plan store (FileStorage), the configuration (ConfigManager) and the     *)
(* create / progress command handlers, as a state machine.                 *)
(*                                                                         *)
(* Strings that the code inspects character by character (task, title)    *)
(* are sequences of one-character strings; other texts are TLA+ strings.   *)
(* JavaScript values whose type varies at run time are tagged records.     *)
(***************************************************************************)
EXTENDS Integers, Sequences, FiniteSets, TLC

VARIABLES
  files,      \* ~/.code-planner/plans: plan id -> document written there
  configFile, \* ~/.code-planner/config.json: its content, or NoFile
  envKey,     \* process.env.GEMINI_API_KEY
  now,        \* the system clock, in milliseconds
  mem,        \* per invocation (shell): the plan object it holds, or NoPlan
  last,       \* per invocation: its last operation, its inputs and what it saw
  saved       \* the plan object the last step handed to savePlan, or NoPlan

vars == <<files, configFile, envKey, now, mem, last, saved>>

----------------------------------------------------------------------------
(* Bounds of the model *)

MaxTime == 1
MaxFiles == 1
MaxDocs == 3

(* Program constants *)

SlugLimit == 30
DefaultMaxPlans == 50

----------------------------------------------------------------------------
(* JavaScript values *)

Undefined == [t |-> "undefined"]
Null == [t |-> "null"]
\* a string held as opaque text
Str(s) == [t |-> "string", s |-> s]
\* a string held as its sequence of characters
Chars(cs) == [t |-> "string", cs |-> cs]
\* a template literal `${prefix}${cs}`
Template(prefix, cs) == [t |-> "string", prefix |-> prefix, cs |-> cs]
Num(n) == [t |-> "number", n |-> n]
NaN == [t |-> "NaN"]
Arr(a) == [t |-> "array", a |-> a]
Obj(fields) == [t |-> "object", f |-> fields]
DateOf(ms) == [t |-> "Date", ms |-> ms]
InvalidDate == [t |-> "Date", invalid |-> TRUE]
\* Date.prototype.toISOString: the text form of a valid date
IsoString(ms) == [t |-> "string", iso |-> ms]

\* ToBoolean of the values the code tests with !x and ||
Truthy(v) ==
  CASE v.t = "undefined" -> FALSE
    [] v.t = "null" -> FALSE
    [] v.t = "NaN" -> FALSE
    [] v.t = "string" ->
         IF "prefix" \in DOMAIN v THEN TRUE
         ELSE IF "cs" \in DOMAIN v THEN v.cs # <<>>
         ELSE IF "s" \in DOMAIN v THEN v.s # ""
         ELSE TRUE
    [] v.t = "number" -> v.n # 0
    [] OTHER -> TRUE

\* a || b
OrElse(a, b) == IF Truthy(a) THEN a ELSE b

NoFile == [t |-> "nofile"]
NoPlan == [t |-> "noplan"]

----------------------------------------------------------------------------
(* src/utils/idGenerator *)

UpperCase == <<"A","B","C","D","E","F","G","H","I","J","K","L","M",
               "N","O","P","Q","R","S","T","U","V","W","X","Y","Z">>
LowerCase == <<"a","b","c","d","e","f","g","h","i","j","k","l","m",
               "n","o","p","q","r","s","t","u","v","w","x","y","z">>
Digits == {"0","1","2","3","4","5","6","7","8","9"}

ToLowerChar(c) ==
  IF \E i \in DOMAIN UpperCase : UpperCase[i] = c
  THEN LowerCase[CHOOSE i \in DOMAIN UpperCase : UpperCase[i] = c]
  ELSE c

\* String.prototype.toLowerCase
ToLowerCase(s) == [i \in DOMAIN s |-> ToLowerChar(s[i])]

IsSpace(c) == c \in {" ", "\t", "\n"}

\* the characters /[^a-z0-9\s-]/ leaves in place
SlugChar(c) ==
  \/ \E i \in DOMAIN LowerCase : LowerCase[i] = c
  \/ c \in Digits
  \/ IsSpace(c)
  \/ c = "-"

\* the slug with the special characters left in
RemoveSpecialNone(s) == s

\* .replace(/[^a-z0-9\s-]/g, '')
RECURSIVE RemoveSpecial(_)
RemoveSpecial(s) ==
  IF s = <<>> THEN <<>>
  ELSE IF SlugChar(Head(s)) THEN <<Head(s)>> \o RemoveSpecial(Tail(s))
  ELSE RemoveSpecial(Tail(s))

\* .replace(/\s+/g, '-'): every maximal run of whitespace becomes one hyphen
RECURSIVE HyphenateSpaces(_)
HyphenateSpaces(s) ==
  IF s = <<>> THEN <<>>
  ELSE IF IsSpace(Head(s))
       THEN IF Len(s) > 1 /\ IsSpace(s[2])
            THEN HyphenateSpaces(Tail(s))
            ELSE <<"-">> \o HyphenateSpaces(Tail(s))
  ELSE <<Head(s)>> \o HyphenateSpaces(Tail(s))

\* .slice(0, n)
Slice(s, n) == IF Len(s) <= n THEN s ELSE SubSeq(s, 1, n)

Slugify(title) ==
  Slice(HyphenateSpaces(RemoveSpecial(ToLowerCase(title))), SlugLimit)

\* `${slug}-${timestamp}`: the timestamp holds no hyphen, so the pair
\* <<slug, timestamp>> determines the string and is determined by it
generatePlanId(title, clock) == <<Slugify(title), clock>>

\* `step-${stepNumber}`
generateStepId(stepNumber) == <<"step-", stepNumber>>

----------------------------------------------------------------------------
(* src/ai/GeminiPlanner: the fallback plan *)

Step(n, title, description, stepFiles, deps, order) ==
  [id |-> generateStepId(n), title |-> title, description |-> description,
   files |-> Arr(stepFiles), dependencies |-> Arr(deps), completed |-> FALSE,
   order |-> order]

\* Array.prototype.splice(at, 0, x)
InsertAt(s, at, x) ==
  SubSeq(s, 1, at) \o <<x>> \o SubSeq(s, at + 1, Len(s))

commonSteps ==
  << Step(1, Str("Project Setup"),
          Str("Initialize project structure and install dependencies"),
          <<"package.json", "README.md">>,
          <<"npm init", "dependency installation">>, 1),
     Step(2, Str("Core Implementation"),
          Str("Build the main functionality"),
          <<"src/index.js", "src/main.js">>, <<>>, 2),
     Step(3, Str("Testing & Documentation"),
          Str("Add tests and update documentation"),
          <<"tests/", "README.md">>, <<"testing framework">>, 3) >>

backendSetupStep ==
  Step(2, Str("Backend Setup"),
       Str("Set up server and database connections"),
       <<"server/index.js", "server/models/">>,
       <<"express", "database driver">>, 2)

frontendIntegrationStep ==
  Step(4, Str("Frontend Integration"),
       Str("Connect frontend to backend APIs"),
       <<"src/services/", "src/components/">>,
       <<"axios", "frontend framework">>, 4)

getDefaultSteps(projectType) ==
  IF projectType = Str("fullstack")
  THEN Append(InsertAt(commonSteps, 1, backendSetupStep),
              frontendIntegrationStep)
  ELSE commonSteps

Word(w) ==
  CASE w = "react" -> <<"r","e","a","c","t">>
    [] w = "vue" -> <<"v","u","e">>
    [] w = "angular" -> <<"a","n","g","u","l","a","r">>
    [] w = "next" -> <<"n","e","x","t">>

getDefaultDependencies(framework) ==
  IF ~Truthy(framework) THEN <<"express">>
  ELSE LET fw == ToLowerCase(framework.cs)
       IN CASE fw = Word("react") -> <<"express", "react", "react-dom">>
            [] fw = Word("vue") -> <<"express", "vue">>
            [] fw = Word("angular") -> <<"express", "@angular/core">>
            [] fw = Word("next") -> <<"express", "next", "react">>
            [] OTHER -> <<"express">>

FreshProgress(steps) ==
  [completedSteps |-> 0, totalSteps |-> Len(steps), percentage |-> Num(0)]

createFallbackPlan(task, options, clock) ==
  LET steps == getDefaultSteps(OrElse(options.projectType, Str("fullstack")))
  IN [id |-> generatePlanId(task, clock),
      title |-> task,
      description |-> Template("Development plan for: ", task),
      createdAt |-> DateOf(clock),
      updatedAt |-> DateOf(clock),
      status |-> "planning",
      overview |-> [projectType |-> OrElse(options.projectType, Str("fullstack")),
                    estimatedTime |-> Str("TBD"),
                    complexity |-> Str("medium")],
      fileStructure |-> [directories |-> Arr(<<"src/", "src/components/", "src/utils/">>),
                         files |-> Arr(<<"package.json", "README.md", "src/index.js">>)],
      dependencies |-> [npm |-> Arr(getDefaultDependencies(options.framework)),
                        apis |-> Arr(<<>>),
                        services |-> Arr(<<>>)],
      steps |-> steps,
      progress |-> FreshProgress(steps)]

----------------------------------------------------------------------------
(* src/commands/create: the basic plan *)

basicSteps(task) ==
  << Step(1, Str("Project Planning & Setup"),
          Str("Plan the project structure and initialize the development environment"),
          <<"README.md", "package.json">>, <<>>, 1),
     Step(2, Str("Core Implementation"),
          Template("Implement the main functionality for: ", task),
          <<"src/index.js">>, <<>>, 2),
     Step(3, Str("Testing & Refinement"),
          Str("Add tests and refine the implementation"),
          <<"tests/", "src/">>, <<>>, 3) >>

createBasicPlan(task, options, clock) ==
  [id |-> generatePlanId(task, clock),
   title |-> task,
   description |-> Template("Development plan for: ", task),
   createdAt |-> DateOf(clock),
   updatedAt |-> DateOf(clock),
   status |-> "planning",
   overview |-> [projectType |-> OrElse(options.projectType, Str("fullstack")),
                 estimatedTime |-> Str("TBD"),
                 complexity |-> Str("medium")],
   fileStructure |-> [directories |-> Arr(<<"src/", "tests/">>),
                      files |-> Arr(<<"package.json", "README.md", "src/index.js">>)],
   dependencies |-> [npm |-> Arr(<<>>), apis |-> Arr(<<>>), services |-> Arr(<<>>)],
   steps |-> basicSteps(task),
   progress |-> FreshProgress(basicSteps(task))]

----------------------------------------------------------------------------
(* src/ai/GeminiPlanner: the AI strategy *)

\* the outcome of evaluating an expression that may throw
Thrown == [t |-> "thrown"]

\* v.key; reading a property of undefined or null throws a TypeError
Get(v, key) ==
  CASE v.t \in {"undefined", "null", "thrown"} -> Thrown
    [] v.t = "object" -> v.f[key]
    [] OTHER -> Undefined

\* v?.key
GetOpt(v, key) ==
  IF v.t \in {"undefined", "null"} THEN Undefined ELSE Get(v, key)

\* The response text, as tokens: single characters, and whole serialised
\* JSON objects (the text from the object's opening to its closing brace).
CharTok(c) == [k |-> "char", c |-> c]
JsonTok(v) == [k |-> "json", v |-> v]

Opens(text) ==
  {i \in DOMAIN text : text[i] = CharTok("{") \/ text[i].k = "json"}
Closes(text) ==
  {i \in DOMAIN text : text[i] = CharTok("}") \/ text[i].k = "json"}

Min(S) == CHOOSE x \in S : \A y \in S : x <= y
Max(S) == CHOOSE x \in S : \A y \in S : x >= y

\* text.match(/\{[\s\S]*\}/): greedy, from the first "{" to the LAST "}";
\* Null when there is no match
jsonMatch(text) ==
  IF Opens(text) = {} \/ Closes(text) = {} THEN Null
  ELSE LET i == Min(Opens(text))
           j == Max(Closes(text))
       IN IF j > i \/ (j = i /\ text[i].k = "json")
          THEN Arr(SubSeq(text, i, j))
          ELSE Null

\* an object literal of the response, every key it may carry; an absent key
\* reads as undefined
ResponseObject(title, description, overview, fileStructure, dependencies, steps) ==
  Obj([title |-> title, description |-> description, overview |-> overview,
       fileStructure |-> fileStructure, dependencies |-> dependencies,
       steps |-> steps])

EmptyObject ==
  ResponseObject(Undefined, Undefined, Undefined, Undefined, Undefined, Undefined)

\* JSON.parse of the matched text: one serialised object decodes to it, "{"
\* whitespace "}" decodes to the empty object, anything else is a SyntaxError
JsonParse(slice) ==
  IF Len(slice) = 1 /\ slice[1].k = "json" THEN slice[1].v
  ELSE IF /\ Len(slice) >= 2
          /\ slice[1] = CharTok("{")
          /\ slice[Len(slice)] = CharTok("}")
          /\ \A i \in 2..(Len(slice) - 1) :
               slice[i].k = "char" /\ IsSpace(slice[i].c)
       THEN EmptyObject
  ELSE Thrown

\* whether generatePlanId(x) returns: x.toLowerCase exists on strings only
hasToLowerCase(x) == x.t = "string" /\ "cs" \in DOMAIN x

\* lines 96-104: aiResponse.steps.map(...); Thrown when steps has no map
\* method or an element is null
mapSteps(stepsValue) ==
  IF stepsValue.t # "array" THEN Thrown
  ELSE IF \E i \in DOMAIN stepsValue.a : stepsValue.a[i].t \in {"null", "undefined"}
       THEN Thrown
  ELSE Arr([i \in DOMAIN stepsValue.a |->
             [id |-> generateStepId(i),
              title |-> Get(stepsValue.a[i], "title"),
              description |-> Get(stepsValue.a[i], "description"),
              files |-> OrElse(Get(stepsValue.a[i], "files"), Arr(<<>>)),
              dependencies |-> OrElse(Get(stepsValue.a[i], "dependencies"), Arr(<<>>)),
              completed |-> FALSE,
              order |-> i]])

\* the body of parseAIResponse's try block: the plan, or Thrown
parseAIResponseTry(text, task, options, clock) ==
  LET m == jsonMatch(text)
      aiResponse == IF m = Null THEN Thrown ELSE JsonParse(m.a)
      titleValue == OrElse(Get(aiResponse, "title"), Chars(task))
      steps == mapSteps(Get(aiResponse, "steps"))
      overview == Get(aiResponse, "overview")
      fileStructure == Get(aiResponse, "fileStructure")
      dependencies == Get(aiResponse, "dependencies")
  IN IF aiResponse = Thrown \/ ~hasToLowerCase(titleValue) \/ steps = Thrown
     THEN Thrown
     ELSE [id |-> generatePlanId(titleValue.cs, clock),
           title |-> titleValue.cs,
           description |-> OrElse(Get(aiResponse, "description"),
                                  Template("Development plan for: ", task)),
           createdAt |-> DateOf(clock),
           updatedAt |-> DateOf(clock),
           status |-> "planning",
           overview |->
             [projectType |-> OrElse(GetOpt(overview, "projectType"),
                                     OrElse(options.projectType, Str("fullstack"))),
              estimatedTime |-> OrElse(GetOpt(overview, "estimatedTime"), Str("TBD")),
              complexity |-> OrElse(GetOpt(overview, "complexity"), Str("medium"))],
           fileStructure |->
             [directories |-> OrElse(GetOpt(fileStructure, "directories"), Arr(<<>>)),
              files |-> OrElse(GetOpt(fileStructure, "files"), Arr(<<>>))],
           dependencies |->
             [npm |-> OrElse(GetOpt(dependencies, "npm"), Arr(<<>>)),
              apis |-> OrElse(GetOpt(dependencies, "apis"), Arr(<<>>)),
              services |-> OrElse(GetOpt(dependencies, "services"), Arr(<<>>))],
           steps |-> steps.a,
           progress |-> FreshProgress(steps.a)]

parseAIResponse(text, task, options, clock) ==
  LET r == parseAIResponseTry(text, task, options, clock)
  IN IF r = Thrown THEN createFallbackPlan(task, options, clock) ELSE r

\* what this.model.generateContent(prompt) does: it throws, or answers a text
AiThrows == [throws |-> TRUE]
AiText(text) == [throws |-> FALSE, text |-> text]

\* generatePlan: [thrown |-> whether the call ends in an exception,
\* plan |-> the plan it returns]
generatePlan(task, options, ai, clock) ==
  IF ai.throws
  THEN [thrown |-> FALSE, plan |-> createFallbackPlan(task, options, clock)]
  ELSE [thrown |-> FALSE, plan |-> parseAIResponse(ai.text, task, options, clock)]

----------------------------------------------------------------------------
(* src/storage/FileStorage *)

\* what JSON.stringify writes for a value: a Date by its toJSON (the ISO
\* string, null for an invalid date), NaN as null
ToJson(v) ==
  CASE v.t = "Date" -> IF "ms" \in DOMAIN v THEN IsoString(v.ms) ELSE Null
    [] v.t = "NaN" -> Null
    [] OTHER -> v

\* JSON.stringify(plan, null, 2): the document text, held as the tree that
\* JSON.parse reads back from it
JsonStringify(plan) ==
  [plan EXCEPT !.createdAt = ToJson(@),
               !.updatedAt = ToJson(@),
               !.progress = [@ EXCEPT !.percentage = ToJson(@)]]

\* new Date(v)
NewDate(v) ==
  CASE v.t = "string" /\ "iso" \in DOMAIN v -> DateOf(v.iso)
    [] v.t = "Date" -> v
    [] v.t = "null" -> DateOf(0)
    [] v.t = "number" -> DateOf(v.n)
    [] OTHER -> InvalidDate

\* a document (plan file or config.json) whose text JSON.parse rejects
Corrupt == [t |-> "corrupt"]

\* a file that fs.writeFile has opened, which truncates it, and not yet
\* written; and a file holding a text followed by what is left of a longer
\* text that was there, len characters in all
Empty == [t |-> "empty"]
Blend(len) == [t |-> "blend", len |-> len]

\* the file's content is not the text of a plan
Undecodable(doc) == "t" \in DOMAIN doc

\* savePlan: the plans directory after writing plan under its id
savePlan(dir, plan) ==
  [id \in DOMAIN dir \cup {plan.id} |->
     IF id = plan.id THEN JsonStringify(plan) ELSE dir[id]]

\* how a call of fs.writeFile may end: the whole text is in the file, the
\* call fails before the file is touched, or it fails after the file was
\* truncated and part of the text written
WriteOutcomes == {"written", "refused", "torn"}

\* line 30: fs.writeFile of the plan's text, ending as outcome says
writePlanFile(dir, plan, outcome) ==
  CASE outcome = "written" -> savePlan(dir, plan)
    [] outcome = "refused" -> dir
    [] OTHER -> [savePlan(dir, plan) EXCEPT ![plan.id] = Corrupt]

\* savePlan that writes again when the write failed
savePlanRetry(dir, plan, disk) ==
  IF Head(disk) = "written" \/ Len(disk) < 2
  THEN [dir |-> writePlanFile(dir, plan, Head(disk)),
        thrown |-> Head(disk) # "written"]
  ELSE [dir |-> writePlanFile(writePlanFile(dir, plan, Head(disk)), plan, disk[2]),
        thrown |-> disk[2] # "written"]

\* savePlan where the write may fail: the directory it leaves and whether
\* the call throws (ensureDirectories swallows its own errors, line 21)
savePlanOn(dir, plan, disk) ==
  [dir |-> writePlanFile(dir, plan, Head(disk)),
   thrown |-> Head(disk) # "written"]

\* saveConfig where the write may fail: config.json as it leaves it
saveConfigOn(file, config, disk) ==
  [file |-> CASE Head(disk) = "written" -> config
              [] Head(disk) = "refused" -> file
              [] OTHER -> Corrupt,
   thrown |-> Head(disk) # "written"]

\* loadPlan, lines 35-43, the body of its try block: readFile throws when
\* there is no such file, JSON.parse throws on a text it cannot decode
loadPlanTry(dir, id) ==
  IF id \notin DOMAIN dir THEN Thrown
  ELSE IF Undecodable(dir[id]) THEN Thrown
  ELSE [dir[id] EXCEPT !.createdAt = NewDate(@), !.updatedAt = NewDate(@)]

\* loadPlan without its catch block
loadPlanUncaught(dir, id) == loadPlanTry(dir, id)

\* loadPlan: the plan object, or Null when the try block throws
loadPlan(dir, id) ==
  IF loadPlanTry(dir, id) = Thrown THEN Null ELSE loadPlanTry(dir, id)

\* b.createdAt.getTime() - a.createdAt.getTime(), the comparator of line 66
compareCreatedAt(a, b) == b.createdAt.ms - a.createdAt.ms

\* Array.prototype.sort is stable: p goes behind every element the
\* comparator does not place after it
RECURSIVE InsertSorted(_, _)
InsertSorted(sorted, p) ==
  IF sorted = <<>> THEN <<p>>
  ELSE IF compareCreatedAt(Head(sorted), p) <= 0
       THEN <<Head(sorted)>> \o InsertSorted(Tail(sorted), p)
  ELSE <<p>> \o sorted

\* plans.sort((a, b) => b.createdAt.getTime() - a.createdAt.getTime())
RECURSIVE sortPlans(_)
sortPlans(plans) ==
  IF plans = <<>> THEN <<>>
  ELSE InsertSorted(sortPlans(SubSeq(plans, 1, Len(plans) - 1)), plans[Len(plans)])

\* lines 57-63: the plans pushed while walking the file names in order
RECURSIVE loadEach(_, _)
loadEach(dir, order) ==
  IF order = <<>> THEN <<>>
  ELSE (IF loadPlan(dir, Head(order)) = Null THEN <<>>
        ELSE <<loadPlan(dir, Head(order))>>)
       \o loadEach(dir, Tail(order))

\* listPlans without the sort of line 66
listPlansUnsorted(dir, order) ==
  IF \E i \in DOMAIN order : loadPlan(dir, order[i]) = Thrown THEN <<>>
  ELSE loadEach(dir, order)

\* listPlans; order is the sequence of file names readdir answers, which the
\* file system chooses.  An exception inside the try block gives [].
listPlans(dir, order) ==
  IF \E i \in DOMAIN order : loadPlan(dir, order[i]) = Thrown THEN <<>>
  ELSE sortPlans(loadEach(dir, order))

\* plan.steps.filter(step => step.completed).length
RECURSIVE countCompleted(_)
countCompleted(steps) ==
  IF steps = <<>> THEN 0
  ELSE (IF Head(steps).completed THEN 1 ELSE 0) + countCompleted(Tail(steps))

\* Math.round((completedSteps / totalSteps) * 100): 0/0 is NaN and stays
\* NaN; otherwise the nearest integer, halves upwards.  (For totalSteps < 40
\* the double arithmetic agrees with the exact quotient.)
percentageOf(completedSteps, totalSteps) ==
  IF totalSteps = 0 THEN NaN
  ELSE Num((200 * completedSteps + totalSteps) \div (2 * totalSteps))

\* updatePlan without the recalculation of progress
updatedPlanStale(plan, clock) == [plan EXCEPT !.updatedAt = DateOf(clock)]

\* updatePlan that marks the plan completed once every step is
updatedPlanAutoComplete(plan, clock) ==
  [plan EXCEPT !.updatedAt = DateOf(clock),
               !.status = IF plan.steps # <<>>
                             /\ countCompleted(plan.steps) = Len(plan.steps)
                          THEN "completed" ELSE @,
               !.progress =
                 [completedSteps |-> countCompleted(plan.steps),
                  totalSteps |-> Len(plan.steps),
                  percentage |-> percentageOf(countCompleted(plan.steps),
                                              Len(plan.steps))]]

\* updatePlan that leaves updatedAt as it was
updatedPlanSameTime(plan, clock) ==
  [plan EXCEPT !.progress =
                 [completedSteps |-> countCompleted(plan.steps),
                  totalSteps |-> Len(plan.steps),
                  percentage |-> percentageOf(countCompleted(plan.steps),
                                              Len(plan.steps))]]

\* updatePlan, lines 83-91: the plan object after the two assignments
updatedPlan(plan, clock) ==
  [plan EXCEPT !.updatedAt = DateOf(clock),
               !.progress =
                 [completedSteps |-> countCompleted(plan.steps),
                  totalSteps |-> Len(plan.steps),
                  percentage |-> percentageOf(countCompleted(plan.steps),
                                              Len(plan.steps))]]

\* updatePlan where the write may fail: the plan object it leaves, the
\* directory, and whether the call throws
updatePlanOn(dir, plan, clock, disk) ==
  [plan |-> updatedPlan(plan, clock)]
    @@ savePlanOn(dir, updatedPlan(plan, clock), disk)

\* loadConfig: the record in config.json, or the default one
defaultConfig ==
  [geminiApiKey |-> Undefined, defaultOutputDir |-> Str("cwd"),
   maxPlans |-> Num(DefaultMaxPlans)]

\* lines 99-100, the body of loadConfig's try block
loadConfigTry(file) == IF file \in {NoFile, Corrupt} THEN Thrown ELSE file

\* loadConfig answering an empty record where it cannot read the file
loadConfigEmpty(file) ==
  IF loadConfigTry(file) = Thrown
  THEN [geminiApiKey |-> Undefined, defaultOutputDir |-> Undefined,
        maxPlans |-> Undefined]
  ELSE loadConfigTry(file)

loadConfig(file) ==
  IF loadConfigTry(file) = Thrown THEN defaultConfig ELSE loadConfigTry(file)

----------------------------------------------------------------------------
(* src/config/ConfigManager *)

\* initConfig: the config record it saves
initConfig(file) ==
  LET config == loadConfig(file)
  IN [config EXCEPT
        !.defaultOutputDir = IF Truthy(@) THEN @ ELSE Str("cwd"),
        !.maxPlans = IF Truthy(@) THEN @ ELSE Num(DefaultMaxPlans)]

\* ensureApiKey that asks the environment first
ensureApiKeyEnvFirst(file, env) ==
  LET config == loadConfig(file)
  IN IF Truthy(env) THEN env
     ELSE IF Truthy(config.geminiApiKey) THEN config.geminiApiKey
     ELSE Thrown

\* ensureApiKey: the key, or Thrown
ensureApiKey(file, env) ==
  LET config == loadConfig(file)
  IN IF ~Truthy(config.geminiApiKey)
     THEN IF Truthy(env) THEN env ELSE Thrown
     ELSE config.geminiApiKey

\* setApiKey that saves a new config record holding the key
setApiKeyFresh(file, apiKey) == [defaultConfig EXCEPT !.geminiApiKey = apiKey]

\* setApiKey: the config record it saves
setApiKey(file, apiKey) == [loadConfig(file) EXCEPT !.geminiApiKey = apiKey]

----------------------------------------------------------------------------
(* String helpers of the command handlers *)

\* s.includes(sub)
Includes(s, sub) ==
  \E i \in 0..(Len(s) - Len(sub)) : SubSeq(s, i + 1, i + Len(sub)) = sub

\* s.split(' ')[0]: the text before the first space
RECURSIVE FirstToken(_)
FirstToken(s) ==
  IF s = <<>> \/ Head(s) = " " THEN <<>>
  ELSE <<Head(s)>> \o FirstToken(Tail(s))

DigitValue(c) ==
  CASE c = "0" -> 0 [] c = "1" -> 1 [] c = "2" -> 2 [] c = "3" -> 3
    [] c = "4" -> 4 [] c = "5" -> 5 [] c = "6" -> 6 [] c = "7" -> 7
    [] c = "8" -> 8 [] c = "9" -> 9

DigitChar(d) ==
  CASE d = 0 -> "0" [] d = 1 -> "1" [] d = 2 -> "2" [] d = 3 -> "3"
    [] d = 4 -> "4" [] d = 5 -> "5" [] d = 6 -> "6" [] d = 7 -> "7"
    [] d = 8 -> "8" [] d = 9 -> "9"

\* String(n) for an integer n
RECURSIVE NatToChars(_)
NatToChars(n) ==
  IF n < 10 THEN <<DigitChar(n)>>
  ELSE NatToChars(n \div 10) \o <<DigitChar(n % 10)>>

NumberToChars(n) == IF n < 0 THEN <<"-">> \o NatToChars(0 - n) ELSE NatToChars(n)

RECURSIVE SkipSpaces(_)
SkipSpaces(s) ==
  IF s # <<>> /\ IsSpace(Head(s)) THEN SkipSpaces(Tail(s)) ELSE s

\* the value of the longest prefix of decimal digits of s, continuing acc
RECURSIVE DigitsPrefix(_, _)
DigitsPrefix(s, acc) ==
  IF s # <<>> /\ Head(s) \in Digits
  THEN DigitsPrefix(Tail(s), 10 * acc + DigitValue(Head(s)))
  ELSE acc

\* parseInt(s) on a string without a 0x prefix: leading white space, an
\* optional sign, then the decimal digits up to the first other character;
\* NaN when no digit stands there
parseInt(s) ==
  LET t == SkipSpaces(s)
      negative == t # <<>> /\ Head(t) = "-"
      u == IF t # <<>> /\ Head(t) \in {"-", "+"} THEN Tail(t) ELSE t
  IN IF u = <<>> \/ Head(u) \notin Digits THEN NaN
     ELSE Num(IF negative THEN 0 - DigitsPrefix(u, 0) ELSE DigitsPrefix(u, 0))

\* the text of a plan id, `${slug}-${timestamp}`
IdText(id) == id[1] \o <<"-">> \o NumberToChars(id[2])

----------------------------------------------------------------------------
(* src/commands/progress *)

TodoAppTitle ==
  <<"B","u","i","l","d"," ","a"," ","T","o","d","o"," ","A","p","p",
    " ","w","i","t","h"," ","A","u","t","h","e","n","t","i","c","a",
    "t","i","o","n">>

RestApiTitle ==
  <<"B","u","i","l","d"," ","a"," ","R","E","S","T"," ","A","P","I",
    " ","f","o","r"," ","B","l","o","g">>

MockStep(n, title, completed) ==
  [id |-> <<"step-", n>>, title |-> Str(title), completed |-> completed,
   order |-> n]

MockAge == 100000

\* lines 16-40: the plans the handler works on
availablePlans(clock) ==
  << [id |-> <<<<"t","o","d","o","-","a","p","p">>, clock>>,
      title |-> TodoAppTitle,
      status |-> "in-progress",
      steps |-> << MockStep(1, "Project Setup & Dependencies", TRUE),
                   MockStep(2, "Backend API Setup", TRUE),
                   MockStep(3, "Authentication System", TRUE),
                   MockStep(4, "Todo CRUD Operations", FALSE),
                   MockStep(5, "Frontend UI & Styling", FALSE) >>],
     [id |-> <<<<"r","e","s","t","-","a","p","i">>, clock - MockAge>>,
      title |-> RestApiTitle,
      status |-> "completed",
      steps |-> << MockStep(1, "Express Server Setup", TRUE),
                   MockStep(2, "Database Models", TRUE),
                   MockStep(3, "API Routes", TRUE),
                   MockStep(4, "Authentication", TRUE) >>] >>

\* lines 67-70, and FileStorage.findPlansByTitle lines 118-121
titleMatches(title, term) ==
  \/ Includes(ToLowerCase(title), ToLowerCase(term))
  \/ Includes(ToLowerCase(term), FirstToken(ToLowerCase(title)))

\* FileStorage.findPlansByTitle: the plans of listPlans whose title matches
RECURSIVE filterByTitle(_, _)
filterByTitle(plans, searchTerm) ==
  IF plans = <<>> THEN <<>>
  ELSE (IF titleMatches(Head(plans).title, searchTerm) THEN <<Head(plans)>>
        ELSE <<>>)
       \o filterByTitle(Tail(plans), searchTerm)

findPlansByTitle(dir, order, searchTerm) ==
  filterByTitle(listPlans(dir, order), searchTerm)

\* the step update as step.completed = !step.completed
setStepCompletionToggle(plan, stepNumber, newStatus) ==
  LET n == parseInt(stepNumber)
      found == n.t = "number" /\ (n.n - 1) \in 0..(Len(plan.steps) - 1)
  IN [found |-> found,
      plan |-> IF found
               THEN [plan EXCEPT !.steps[n.n] = [@ EXCEPT !.completed = ~@]]
               ELSE plan]

\* the step update that also sets every earlier step's flag
setStepCompletionCascade(plan, stepNumber, newStatus) ==
  LET n == parseInt(stepNumber)
      found == n.t = "number" /\ (n.n - 1) \in 0..(Len(plan.steps) - 1)
  IN [found |-> found,
      plan |-> IF found
               THEN [plan EXCEPT !.steps =
                       [i \in DOMAIN @ |->
                          IF i <= n.n THEN [@[i] EXCEPT !.completed = newStatus]
                          ELSE @[i]]]
               ELSE plan]

\* the step update with stepIndex = parseInt(stepNumber), the "- 1" forgotten
setStepCompletionOffByOne(plan, stepNumber, newStatus) ==
  LET n == parseInt(stepNumber)
      found == n.t = "number" /\ n.n \in 0..(Len(plan.steps) - 1)
  IN [found |-> found,
      plan |-> IF found
               THEN [plan EXCEPT !.steps[n.n + 1] = [@ EXCEPT !.completed = newStatus]]
               ELSE plan]

\* lines 137-143 and 184-185: plan.steps[parseInt(stepNumber) - 1], and the
\* assignment to its completed flag; found is FALSE when there is no such
\* element, and then the plan is as it was
setStepCompletion(plan, stepNumber, newStatus) ==
  LET n == parseInt(stepNumber)
      found == n.t = "number" /\ (n.n - 1) \in 0..(Len(plan.steps) - 1)
  IN [found |-> found,
      plan |-> IF found
               THEN [plan EXCEPT !.steps[n.n] = [@ EXCEPT !.completed = newStatus]]
               ELSE plan]

\* lines 188-190: the progress the handler reports
reportedProgress(plan) ==
  [completedSteps |-> countCompleted(plan.steps),
   totalSteps |-> Len(plan.steps),
   percentage |-> percentageOf(countCompleted(plan.steps), Len(plan.steps))]

----------------------------------------------------------------------------
(* fs.writeFile, FileStorage.ts line 30, as the steps it takes: it opens the
   file with flag "w", which truncates it, then writes the text from the
   start of the file *)

\* the number of characters of the flags "true" / "false" of the steps
RECURSIVE FlagsLength(_)
FlagsLength(steps) ==
  IF steps = <<>> THEN 0
  ELSE (IF Head(steps).completed THEN 4 ELSE 5) + FlagsLength(Tail(steps))

\* the length of a file's content, counted in the characters that differ
\* between the texts of one plan: its steps' flags, progress.completedSteps
\* and progress.percentage (the dates are ISO strings of one length, and no
\* other field changes after creation)
TextLength(doc) ==
  IF "len" \in DOMAIN doc THEN doc.len
  ELSE IF Undecodable(doc) THEN 0
  ELSE FlagsLength(doc.steps)
         + Len(NatToChars(doc.progress.completedSteps))
         + (IF doc.progress.percentage = Null THEN 4
            ELSE Len(NatToChars(doc.progress.percentage.n)))

\* open(planPath, "w"): the file exists and is empty
openFile(dir, id) ==
  [i \in DOMAIN dir \cup {id} |-> IF i = id THEN Empty ELSE dir[i]]

\* write(fd, text) at offset 0: the text replaces the start of the content;
\* what the content holds beyond the text's length stays
writeText(dir, id, doc) ==
  [dir EXCEPT ![id] = IF TextLength(dir[id]) > TextLength(doc)
                      THEN Blend(TextLength(dir[id]))
                      ELSE doc]

----------------------------------------------------------------------------
(* Inputs *)

Tasks == { <<"T","o","d","o">>, <<"A","P","I"," ","!">> }

Frameworks == { Undefined, Chars(<<"R","e","a","c","t">>) }

ProjectTypes == { Undefined, Str("fullstack"), Str("backend") }

\* an element of the response's steps array, every key it may carry
StepObject(title, description, stepFiles, deps) ==
  Obj([title |-> title, description |-> description, files |-> stepFiles,
       dependencies |-> deps, order |-> Num(7), id |-> Str("s")])

AiTitle == Chars(<<"A","i">>)

FullResponse ==
  ResponseObject(AiTitle, Str("an AI plan"), Undefined, Undefined, Undefined,
    Arr(<< StepObject(Str("Design"), Str("design it"), Arr(<<"a.js">>), Undefined),
           StepObject(Str("Build"), Str("build it"), Undefined, Undefined) >>))

\* what the external service may answer
AiOutcomes ==
  { AiThrows,
    AiText(<<CharTok("n"), CharTok("o")>>),
    AiText(<<CharTok("{"), CharTok("x"), CharTok("}")>>),
    AiText(<<CharTok("{"), CharTok(" "), CharTok("}")>>),
    AiText(<<JsonTok(FullResponse)>>),
    AiText(<<CharTok("H"), JsonTok(FullResponse), CharTok(".")>>),
    AiText(<<JsonTok([EmptyObject EXCEPT !.f.steps = Arr(<<>>)])>>),
    AiText(<<JsonTok([EmptyObject EXCEPT !.f.steps = Str("none")])>>),
    AiText(<<JsonTok([EmptyObject EXCEPT !.f.steps = Arr(<<Null>>)])>>),
    AiText(<<JsonTok([EmptyObject EXCEPT !.f.steps =
               Arr(<<StepObject(Undefined, Undefined, Undefined, Undefined)>>)])>>) }

\* the task and the answers the store's callers are run with: the call
\* fails, an empty steps array, one step without fields
StoreTask == <<"T","o","d","o">>

StoreOutcomes ==
  { AiThrows,
    AiText(<<JsonTok([EmptyObject EXCEPT !.f.steps = Arr(<<>>)])>>),
    AiText(<<JsonTok([EmptyObject EXCEPT !.f.steps =
               Arr(<<StepObject(Undefined, Undefined, Undefined, Undefined)>>)])>>) }

\* answers holding one plan object with commentary around it that has
\* braces of its own: after the object, before it, on both sides
BracedTexts ==
  { <<JsonTok(FullResponse), CharTok(" "), CharTok(":"), CharTok("}")>>,
    <<JsonTok(FullResponse), CharTok(" "), CharTok("{"), CharTok("x"), CharTok("}")>>,
    <<CharTok("{"), CharTok("}"), CharTok(" "), JsonTok(FullResponse)>>,
    <<CharTok("{"), CharTok(" "), JsonTok(FullResponse), CharTok(" "), CharTok("}")>>,
    <<CharTok("}"), CharTok(" "), JsonTok(FullResponse), CharTok(" "), CharTok("{")>> }

\* the answers the create command is run with
CreateOutcomes == { AiThrows, AiText(<<JsonTok(FullResponse)>>) }

\* titles that need sanitising: empty, special characters only, longer
\* than the slug limit
EdgeTasks == { <<>>, <<"!","?">>, TodoAppTitle }

\* --framework values beside those of Frameworks
MoreFrameworks ==
  { Chars(<<"r","e","a","c","t">>), Chars(<<"v","u","e">>),
    Chars(<<"a","n","g","u","l","a","r">>), Chars(<<"n","e","x","t">>),
    Chars(<<"s","v","e","l","t","e">>) }

\* titles of the plans the listing is run over
ListedTitles == { TodoAppTitle, RestApiTitle }

\* titles of the plans the search is run over, and search terms
SearchedTitles == ListedTitles \cup { <<" ","T","o","d","o">> }

SearchTerms == { <<"t","o","d","o">>, <<"z","z">>, <<"B","U","I","L","D">> }

\* the outcomes of the writes of one run of the create command: of
\* config.json, of the plan file, and of a write after those
Disks ==
  { <<"written", "written", "written">>, <<"refused", "written", "written">>,
    <<"written", "refused", "written">>, <<"written", "torn", "written">>,
    <<"written", "refused", "refused">> }

\* keys given to config --set-api-key
ApiKeys == { Str("cfg-key"), Str("other-key"), Str("") }

\* --step values
StepArgs == { <<"1">>, <<"5">>, <<"0">>, <<"9","9">>, <<"x">> }

\* the options object commander hands to the create handler: --type is
\* stored under "type" and --no-ai under "ai", so the keys the handler
\* reads, projectType and noAi, are never set
createOptions(typeFlag, framework, noAiFlag) ==
  [type |-> typeFlag, framework |-> framework, ai |-> ~noAiFlag,
   projectType |-> Undefined, noAi |-> Undefined]

NoOp == [op |-> "none"]

----------------------------------------------------------------------------
(* The state machine *)

Init ==
  /\ files = <<>>
  /\ configFile = NoFile
  /\ envKey \in {Undefined, Str("env-key")}
  /\ now = 0
  /\ mem = [sh \in {"sh1"} |-> NoPlan]
  /\ last = [sh \in {"sh1"} |-> NoOp]
  /\ saved = NoPlan

\* room in the plans directory for a document under id
Room(id) == id \in DOMAIN files \/ Cardinality(DOMAIN files) < MaxFiles

Tick ==
  /\ now < MaxTime
  /\ now' = now + 1
  /\ saved' = NoPlan
  /\ UNCHANGED <<files, configFile, envKey, mem, last>>

\* a call of ConfigManager.setApiKey
SetApiKey(sh, apiKey) ==
  /\ configFile' = setApiKey(configFile, apiKey)
  /\ last' = [last EXCEPT ![sh] =
                [op |-> "setApiKey", key |-> apiKey,
                 before |-> loadConfig(configFile)]]
  /\ saved' = NoPlan
  /\ UNCHANGED <<files, envKey, now, mem>>

\* the user edits config.json, lowering maxPlans
EditConfig ==
  /\ configFile \notin {NoFile, Corrupt}
  /\ configFile.maxPlans # Num(10)
  /\ configFile' = [configFile EXCEPT !.maxPlans = Num(10)]
  /\ saved' = NoPlan
  /\ UNCHANGED <<files, envKey, now, mem, last>>

\* the create handler going on to the planner when ensureApiKey has thrown
createdPlanKeyless(task, options, ai, file, env, clock) ==
  IF Truthy(options.noAi) THEN createBasicPlan(task, options, clock)
  ELSE IF generatePlan(task, options, ai, clock).thrown
       THEN createBasicPlan(task, options, clock)
  ELSE generatePlan(task, options, ai, clock).plan

\* the plan the create handler builds (lines 30-58), given the config file
\* initConfig left
createdPlan(task, options, ai, file, env, clock) ==
  IF Truthy(options.noAi) THEN createBasicPlan(task, options, clock)
  ELSE IF ensureApiKey(file, env) = Thrown
       THEN createBasicPlan(task, options, clock)
  ELSE IF generatePlan(task, options, ai, clock).thrown
       THEN createBasicPlan(task, options, clock)
  ELSE generatePlan(task, options, ai, clock).plan

\* the create command's handler where a write may fail, disk giving the
\* outcomes of its fs.writeFile calls in turn: what it leaves in config.json
\* and in the plans directory, the plan it built, whether it asked for the
\* key, whether it called the planner, and the exit code
createHandler(task, options, ai, file, env, clock, dir, disk) ==
  LET init == saveConfigOn(file, initConfig(file), disk)
      plan == createdPlan(task, options, ai, init.file, env, clock)
      keyAsked == ~Truthy(options.noAi)
      aiCalled == keyAsked /\ ensureApiKey(init.file, env) # Thrown
      save == savePlanOn(dir, plan, Tail(disk))
  IN IF init.thrown
     THEN [configFile |-> init.file, files |-> dir, plan |-> NoPlan,
           keyAsked |-> FALSE, aiCalled |-> FALSE, written |-> FALSE,
           exit |-> 1]
     ELSE [configFile |-> init.file, files |-> save.dir, plan |-> plan,
           keyAsked |-> keyAsked, aiCalled |-> aiCalled,
           written |-> ~save.thrown, exit |-> IF save.thrown THEN 1 ELSE 0]

\* a run of the create command on a disk that may fail
CreateRun(sh, task, typeFlag, framework, noAiFlag, ai, disk) ==
  \E r \in {createHandler(task, createOptions(typeFlag, framework, noAiFlag), ai,
                           configFile, envKey, now, files, disk)} :
     /\ r.plan # NoPlan => Room(r.plan.id)
     /\ configFile' = r.configFile
     /\ files' = r.files
     /\ saved' = IF r.written THEN r.plan ELSE NoPlan
     /\ last' = [last EXCEPT ![sh] =
                   [op |-> "createRun", task |-> task,
                    options |-> createOptions(typeFlag, framework, noAiFlag),
                    noAiFlag |-> noAiFlag, ai |-> ai, at |-> now,
                    key |-> ensureApiKey(r.configFile, envKey),
                    disk |-> disk, before |-> files, plan |-> r.plan,
                    keyAsked |-> r.keyAsked, aiCalled |-> r.aiCalled,
                    exit |-> r.exit]]
     /\ UNCHANGED <<envKey, now, mem>>

\* the create command's handler
CreateCommand(sh, task, typeFlag, framework, noAiFlag, ai) ==
  LET options == createOptions(typeFlag, framework, noAiFlag)
      config == initConfig(configFile)
      plan == createdPlan(task, options, ai, config, envKey, now)
  IN /\ Room(plan.id)
     /\ configFile' = config
     /\ files' = savePlan(files, plan)
     /\ saved' = plan
     /\ last' = [last EXCEPT ![sh] = [op |-> "create"]]
     /\ UNCHANGED <<envKey, now, mem>>

\* a call of GeminiPlanner.generatePlan
GeneratePlan(sh, task, projectType, framework, ai) ==
  LET options == [projectType |-> projectType, framework |-> framework]
      r == generatePlan(task, options, ai, now)
  IN /\ last' = [last EXCEPT ![sh] =
                   [op |-> "generate", task |-> task, options |-> options,
                    ai |-> ai, at |-> now, thrown |-> r.thrown, plan |-> r.plan]]
     /\ saved' = NoPlan
     /\ UNCHANGED <<files, configFile, envKey, now, mem>>

\* a call of createBasicPlan
CreateBasicPlan(sh, task, projectType, framework) ==
  LET options == [projectType |-> projectType, framework |-> framework]
  IN /\ last' = [last EXCEPT ![sh] =
                   [op |-> "basic", task |-> task, options |-> options,
                    at |-> now, plan |-> createBasicPlan(task, options, now)]]
     /\ saved' = NoPlan
     /\ UNCHANGED <<files, configFile, envKey, now, mem>>

\* a call of FileStorage.loadPlan
LoadPlan(sh, id) ==
  LET r == loadPlan(files, id)
  IN /\ mem' = [mem EXCEPT ![sh] = IF r \in {Null, Thrown} THEN NoPlan ELSE r]
     /\ last' = [last EXCEPT ![sh] =
                   [op |-> "load", id |-> id, thrown |-> r = Thrown,
                    found |-> r \notin {Null, Thrown}]]
     /\ saved' = NoPlan
     /\ UNCHANGED <<files, configFile, envKey, now>>

\* the sequences readdir may answer for the directory
Orders(dir) ==
  {o \in [1..Cardinality(DOMAIN dir) -> DOMAIN dir] :
     \A i, j \in DOMAIN o : o[i] = o[j] => i = j}

\* a new invocation that saves a plan titled title with FileStorage.savePlan
SavePlan(sh, title) ==
  LET plan == createBasicPlan(title, createOptions(Undefined, Undefined, FALSE), now)
  IN /\ plan.id \in DOMAIN files \/ Cardinality(DOMAIN files) < MaxDocs
     /\ files' = savePlan(files, plan)
     /\ saved' = plan
     /\ mem' = [mem EXCEPT ![sh] = NoPlan]
     /\ last' = [last EXCEPT ![sh] = [op |-> "save"]]
     /\ UNCHANGED <<configFile, envKey, now>>

\* the environment leaves a plan file with a text that does not decode
CorruptDocument(id) ==
  /\ id \in DOMAIN files
  /\ files[id] # Corrupt
  /\ files' = [files EXCEPT ![id] = Corrupt]
  /\ saved' = NoPlan
  /\ UNCHANGED <<configFile, envKey, now, mem, last>>

\* a new invocation that calls FileStorage.listPlans
ListPlans(sh, order) ==
  /\ mem' = [mem EXCEPT ![sh] = NoPlan]
  /\ last' = [last EXCEPT ![sh] =
                [op |-> "list", result |-> listPlans(files, order)]]
  /\ saved' = NoPlan
  /\ UNCHANGED <<files, configFile, envKey, now>>

\* a new invocation that calls FileStorage.findPlansByTitle
FindPlansByTitle(sh, order, searchTerm) ==
  /\ mem' = [mem EXCEPT ![sh] = NoPlan]
  /\ last' = [last EXCEPT ![sh] =
                [op |-> "find", term |-> searchTerm,
                 result |-> findPlansByTitle(files, order, searchTerm)]]
  /\ saved' = NoPlan
  /\ UNCHANGED <<files, configFile, envKey, now>>

\* the environment leaves config.json with a text that does not decode
CorruptConfig ==
  /\ configFile \notin {NoFile, Corrupt}
  /\ configFile' = Corrupt
  /\ saved' = NoPlan
  /\ UNCHANGED <<files, envKey, now, mem, last>>

\* a call of ConfigManager.initConfig
InitConfig(sh) ==
  /\ configFile' = initConfig(configFile)
  /\ last' = [last EXCEPT ![sh] = [op |-> "initConfig"]]
  /\ saved' = NoPlan
  /\ UNCHANGED <<files, envKey, now, mem>>

\* a call of FileStorage.loadConfig
LoadConfig(sh) ==
  /\ last' = [last EXCEPT ![sh] =
                [op |-> "loadConfig", thrown |-> loadConfig(configFile) = Thrown,
                 config |-> loadConfig(configFile)]]
  /\ saved' = NoPlan
  /\ UNCHANGED <<files, configFile, envKey, now, mem>>

\* a call of ConfigManager.ensureApiKey
EnsureApiKey(sh) ==
  /\ last' = [last EXCEPT ![sh] =
                [op |-> "ensureApiKey", key |-> ensureApiKey(configFile, envKey)]]
  /\ saved' = NoPlan
  /\ UNCHANGED <<files, configFile, envKey, now, mem>>

\* the step update of the progress handler, on the plan the invocation holds
SetStepCompletion(sh, stepNumber, newStatus) ==
  LET r == setStepCompletion(mem[sh], stepNumber, newStatus)
  IN /\ mem[sh] # NoPlan
     /\ mem' = [mem EXCEPT ![sh] = r.plan]
     /\ last' = [last EXCEPT ![sh] =
                   [op |-> "set", index |-> parseInt(stepNumber), c |-> newStatus,
                    found |-> r.found]]
     /\ saved' = NoPlan
     /\ UNCHANGED <<files, configFile, envKey, now>>

\* a call of FileStorage.updatePlan with the plan the invocation holds
UpdatePlan(sh) ==
  LET plan == updatedPlan(mem[sh], now)
  IN /\ mem[sh] # NoPlan
     /\ Room(plan.id)
     /\ mem' = [mem EXCEPT ![sh] = plan]
     /\ files' = savePlan(files, plan)
     /\ saved' = plan
     /\ last' = [last EXCEPT ![sh] = [op |-> "update"]]
     /\ UNCHANGED <<configFile, envKey, now>>

\* a call of FileStorage.updatePlan on a disk that may fail
UpdateRun(sh, disk) ==
  LET r == updatePlanOn(files, mem[sh], now, disk)
  IN /\ mem[sh] # NoPlan
     /\ Room(r.plan.id)
     /\ mem' = [mem EXCEPT ![sh] = r.plan]
     /\ files' = r.dir
     /\ saved' = IF r.thrown THEN NoPlan ELSE r.plan
     /\ last' = [last EXCEPT ![sh] =
                   [op |-> "updateRun", disk |-> disk, before |-> files,
                    plan |-> r.plan, thrown |-> r.thrown]]
     /\ UNCHANGED <<configFile, envKey, now>>

\* FileStorage.updatePlan up to the opening of the plan file by fs.writeFile
UpdateOpen(sh) ==
  LET plan == updatedPlan(mem[sh], now)
  IN /\ mem[sh] # NoPlan
     /\ last[sh].op # "updateOpen"
     /\ Room(plan.id)
     /\ mem' = [mem EXCEPT ![sh] = plan]
     /\ files' = openFile(files, plan.id)
     /\ saved' = NoPlan
     /\ last' = [last EXCEPT ![sh] = [op |-> "updateOpen"]]
     /\ UNCHANGED <<configFile, envKey, now>>

\* the rest of FileStorage.updatePlan: fs.writeFile writes the text
UpdateWrite(sh) ==
  /\ last[sh].op = "updateOpen"
  /\ files' = writeText(files, mem[sh].id, JsonStringify(mem[sh]))
  /\ saved' = mem[sh]
  /\ last' = [last EXCEPT ![sh] =
                [op |-> "updateWrite", over |-> files[mem[sh].id]]]
  /\ UNCHANGED <<configFile, envKey, now, mem>>

\* lines 42-108: the position in plans of the plan the handler selects, 0
\* when it reports that there is none; planChoice is the user's answer
\* where the handler asks
selectedPlan(plans, planArg, planChoice) ==
  LET exact == {i \in DOMAIN plans : Truthy(planArg) /\ IdText(plans[i].id) = planArg.cs}
      fuzzy == {i \in DOMAIN plans : Truthy(planArg)
                                      /\ titleMatches(plans[i].title, planArg.cs)}
  IN IF ~Truthy(planArg) THEN planChoice
     ELSE IF exact # {} THEN Min(exact)
     ELSE IF fuzzy = {} THEN 0
     ELSE IF Cardinality(fuzzy) = 1 THEN Min(fuzzy)
     ELSE planChoice

\* the plans the handler lets the user choose from, where it asks
planChoices(plans, planArg) ==
  IF ~Truthy(planArg) THEN DOMAIN plans
  ELSE {i \in DOMAIN plans : titleMatches(plans[i].title, planArg.cs)}

\* the handler taking --complete where both flags are given
progressHandlerCompleteWins(plans, sel, a) ==
  LET plan == plans[sel]
      stepNumber == IF Truthy(a.step) THEN a.step.cs
                    ELSE NumberToChars(plan.steps[a.stepChoice].order)
      found == setStepCompletion(plan, stepNumber, TRUE).found
      newStatus == IF a.complete THEN TRUE
                   ELSE IF a.incomplete THEN FALSE
                   ELSE a.actionChoice = "complete"
      after == setStepCompletion(plan, stepNumber, newStatus).plan
      quiet(outcome) == [outcome |-> outcome, before |-> plan, after |-> plan]
  IN IF sel = 0 THEN [outcome |-> "plan not found"]
     ELSE IF a.show THEN quiet("shown")
     ELSE IF ~found THEN quiet("step not found")
     ELSE IF ~a.complete /\ ~a.incomplete /\ a.actionChoice = "cancel"
          THEN quiet("cancelled")
     ELSE [outcome |-> "updated", before |-> plan, after |-> after,
           index |-> parseInt(stepNumber).n, newStatus |-> newStatus,
           reported |-> reportedProgress(after)]

\* lines 110-229, for the plan at position sel: the outcome, the plan object
\* as it was built (before) and as the handler leaves it (after)
progressHandler(plans, sel, a) ==
  LET plan == plans[sel]
      stepNumber == IF Truthy(a.step) THEN a.step.cs
                    ELSE NumberToChars(plan.steps[a.stepChoice].order)
      found == setStepCompletion(plan, stepNumber, TRUE).found
      newStatus == IF a.complete THEN TRUE
                   ELSE IF a.incomplete THEN FALSE
                   ELSE a.actionChoice = "complete"
      after == setStepCompletion(plan, stepNumber, newStatus).plan
      quiet(outcome) == [outcome |-> outcome, before |-> plan, after |-> plan]
  IN IF sel = 0 THEN [outcome |-> "plan not found"]
     ELSE IF a.show THEN quiet("shown")
     ELSE IF ~found THEN quiet("step not found")
     ELSE IF a.complete /\ a.incomplete THEN quiet("conflict")
     ELSE IF ~a.complete /\ ~a.incomplete /\ a.actionChoice = "cancel"
          THEN quiet("cancelled")
     ELSE [outcome |-> "updated", before |-> plan, after |-> after,
           index |-> parseInt(stepNumber).n, newStatus |-> newStatus,
           reported |-> reportedProgress(after)]

PlanArgs(clock) ==
  { Undefined, Chars(<<"t","o","d","o">>), Chars(<<"z","z">>),
    Chars(IdText(availablePlans(clock)[2].id)) }

StepOptions == {Undefined} \cup {Chars(cs) : cs \in StepArgs}

\* the command line's options, and the answers to the questions the handler
\* asks for a plan of n steps (fixed where it does not ask)
ProgressOptions(n) ==
  LET opt(show, step, stepChoice, complete, incomplete, actionChoice) ==
        [show |-> show, step |-> step, stepChoice |-> stepChoice,
         complete |-> complete, incomplete |-> incomplete,
         actionChoice |-> actionChoice]
      \* --step given, or the step chosen when the handler asks
      steps == {<<Undefined, i>> : i \in 1..n}
                 \cup {<<step, 1>> : step \in StepOptions \ {Undefined}}
      \* --complete / --incomplete given, or the action chosen when it asks
      flags == {<<FALSE, FALSE, c>> : c \in {"complete", "incomplete", "cancel"}}
                 \cup {<<TRUE, FALSE, "cancel">>, <<FALSE, TRUE, "cancel">>,
                       <<TRUE, TRUE, "cancel">>}
  IN {opt(TRUE, Undefined, 1, f, f, "cancel") : f \in BOOLEAN}
       \cup {opt(FALSE, s[1], s[2], f[1], f[2], f[3]) : s \in steps, f \in flags}

\* the progress command's handler
ProgressCommand(sh) ==
  \E planArg \in PlanArgs(now) :
    LET plans == availablePlans(now)
        choices == planChoices(plans, planArg)
    IN \E planChoice \in (IF choices = {} THEN {1} ELSE choices) :
         LET sel == selectedPlan(plans, planArg, planChoice)
             \* with no plan selected the handler returns before it reads an option
             opts == IF sel = 0
                     THEN {a \in ProgressOptions(1) :
                             a.step = Undefined /\ a.complete = a.incomplete
                               /\ a.actionChoice = "cancel"}
                     ELSE ProgressOptions(Len(plans[sel].steps))
         IN \E a \in opts :
              /\ last' = [last EXCEPT ![sh] =
                            [op |-> "progress",
                             step |-> IF Truthy(a.step) THEN parseInt(a.step.cs)
                                      ELSE Undefined,
                             complete |-> a.complete,
                             incomplete |-> a.incomplete]
                            @@ progressHandler(plans, sel, a)]
              /\ saved' = NoPlan
              /\ UNCHANGED <<files, configFile, envKey, now, mem>>

\* The store, the create command and the invocations that load a plan,
\* set a step's flag and update the plan
Next ==
  \/ Tick
  \/ \E sh \in DOMAIN mem, ai \in StoreOutcomes :
       CreateCommand(sh, StoreTask, Undefined, Undefined, FALSE, ai)
  \/ \E sh \in DOMAIN mem, id \in DOMAIN files \cup {<<<<"n","o">>, 0>>} :
       LoadPlan(sh, id)
  \/ \E sh \in DOMAIN mem, stepNumber \in StepArgs, newStatus \in BOOLEAN :
       SetStepCompletion(sh, stepNumber, newStatus)
  \/ \E sh \in DOMAIN mem : UpdatePlan(sh)

Spec == Init /\ [][Next]_vars

\* The plan generator alone
GenNext ==
  \/ Tick
  \/ \E sh \in DOMAIN mem, task \in Tasks, projectType \in ProjectTypes,
        framework \in Frameworks, ai \in AiOutcomes :
       GeneratePlan(sh, task, projectType, framework, ai)
  \/ \E sh \in DOMAIN mem, task \in EdgeTasks,
        ai \in {AiThrows, AiText(<<JsonTok(FullResponse)>>)} :
       GeneratePlan(sh, task, Undefined, Undefined, ai)
  \/ \E sh \in DOMAIN mem, framework \in MoreFrameworks :
       GeneratePlan(sh, StoreTask, Str("backend"), framework, AiThrows)
  \/ \E sh \in DOMAIN mem, text \in BracedTexts :
       GeneratePlan(sh, StoreTask, Undefined, Undefined, AiText(text))
  \/ \E sh \in DOMAIN mem, task \in Tasks \cup EdgeTasks,
        projectType \in ProjectTypes, framework \in Frameworks \cup MoreFrameworks :
       CreateBasicPlan(sh, task, projectType, framework)

GenSpec == Init /\ [][GenNext]_vars

\* The progress command beside the create command
ProgressNext ==
  \/ Tick
  \/ \E sh \in DOMAIN mem :
       CreateCommand(sh, StoreTask, Undefined, Undefined, FALSE, AiThrows)
  \/ \E sh \in DOMAIN mem : ProgressCommand(sh)

ProgressSpec == Init /\ [][ProgressNext]_vars

\* The plans directory: saving, loading and listing, beside an environment
\* that may leave a document undecodable
ListNext ==
  \/ Tick
  \/ \E sh \in DOMAIN mem, title \in ListedTitles : SavePlan(sh, title)
  \/ \E id \in DOMAIN files : CorruptDocument(id)
  \/ \E sh \in DOMAIN mem, id \in DOMAIN files \cup {<<<<"n","o">>, 0>>} :
       LoadPlan(sh, id)
  \/ \E sh \in DOMAIN mem, order \in Orders(files) : ListPlans(sh, order)

ListSpec == Init /\ [][ListNext]_vars

\* The search by title over saved plans
FindNext ==
  \/ Tick
  \/ \E sh \in DOMAIN mem, title \in SearchedTitles : SavePlan(sh, title)
  \/ \E sh \in DOMAIN mem, order \in Orders(files), searchTerm \in SearchTerms :
       FindPlansByTitle(sh, order, searchTerm)

FindSpec == Init /\ [][FindNext]_vars

\* The configuration document and the API key lookup
ConfigNext ==
  \/ Tick
  \/ \E sh \in DOMAIN mem, apiKey \in ApiKeys : SetApiKey(sh, apiKey)
  \/ CorruptConfig
  \/ EditConfig
  \/ \E sh \in DOMAIN mem : InitConfig(sh)
  \/ \E sh \in DOMAIN mem : LoadConfig(sh)
  \/ \E sh \in DOMAIN mem : EnsureApiKey(sh)

ConfigSpec == Init /\ [][ConfigNext]_vars

\* The create command and the store's operations on a disk whose writes may
\* fail, beside the setting of the API key, all at one time of the clock
CreateNext ==
  \/ \E sh \in DOMAIN mem : SetApiKey(sh, Str("cfg-key"))
  \/ \E sh \in DOMAIN mem, noAiFlag \in BOOLEAN, ai \in CreateOutcomes,
        disk \in Disks :
       CreateRun(sh, StoreTask, Undefined, Undefined, noAiFlag, ai, disk)
  \/ \E sh \in DOMAIN mem, id \in DOMAIN files \cup {<<<<"n","o">>, 0>>} :
       LoadPlan(sh, id)
  \/ \E sh \in DOMAIN mem, outcome \in WriteOutcomes :
       UpdateRun(sh, <<outcome, "written">>)
  \/ \E sh \in DOMAIN mem, order \in Orders(files) : ListPlans(sh, order)

CreateSpec == Init /\ [][CreateNext]_vars

\* Two invocations racing on one plan file
RaceInit ==
  /\ files = <<>>
  /\ configFile = NoFile
  /\ envKey = Undefined
  /\ now = 0
  /\ mem = [sh \in {"sh1", "sh2"} |-> NoPlan]
  /\ last = [sh \in {"sh1", "sh2"} |-> NoOp]
  /\ saved = NoPlan

\* the step each of the two invocations changes
RaceStep == [sh1 |-> <<"1">>, sh2 |-> <<"2">>]

RaceNext ==
  \/ Tick
  \/ /\ \A sh \in DOMAIN mem : last[sh].op # "updateOpen"
     /\ files = <<>>
     /\ CreateCommand("sh1", StoreTask, Undefined, Undefined, FALSE, AiThrows)
  \/ \E sh \in DOMAIN mem, id \in DOMAIN files :
       last[sh].op # "updateOpen" /\ LoadPlan(sh, id)
  \/ \E sh \in DOMAIN mem, newStatus \in BOOLEAN :
       last[sh].op # "updateOpen" /\ SetStepCompletion(sh, RaceStep[sh], newStatus)
  \/ \E sh \in DOMAIN mem : UpdateOpen(sh)
  \/ \E sh \in DOMAIN mem : UpdateWrite(sh)

RaceSpec == RaceInit /\ [][RaceNext]_vars

----------------------------------------------------------------------------
(* Properties *)

\* count(steps where completed)
CompletedCount(steps) == Cardinality({i \in DOMAIN steps : steps[i].completed})

\* round(a / b) for b > 0, halves upwards
RoundDiv(a, b) == (2 * a + b) \div (2 * b)

\* the shells whose last operation was op
Did(sh, op) == last[sh].op = op

\* C1: after any update(plan) call, plan.progress has completedSteps = the
\* number of completed steps, totalSteps = the number of steps, and
\* percentage = round(100 * completedSteps / totalSteps) when totalSteps > 0
\* and 0 when totalSteps = 0.
C1_UpdateProgress ==
  \A sh \in DOMAIN mem :
    Did(sh, "update") =>
      LET plan == mem[sh]
          total == Len(plan.steps)
          done == CompletedCount(plan.steps)
      IN /\ plan.progress.completedSteps = done
         /\ plan.progress.totalSteps = total
         /\ plan.progress.percentage =
              IF total > 0 THEN Num(RoundDiv(100 * done, total)) ELSE Num(0)

\* C4: no setStepCompletion and no update changes the status of a plan,
\* neither of the plan object an invocation holds nor of the persisted
\* document, also when the step brings progress to 100% or back below it.
C4_StatusNeverChanges ==
  [][ /\ \A id \in DOMAIN files \cap DOMAIN files' :
           files'[id].status = files[id].status
      /\ \A sh \in DOMAIN mem :
           (mem[sh] # NoPlan /\ mem'[sh] # NoPlan /\ mem'[sh].id = mem[sh].id)
             => mem'[sh].status = mem[sh].status ]_vars

\* a plan persisted with every step completed, its status as it was created
C4_Witness ==
  \E id \in DOMAIN files :
    /\ files[id].progress.percentage = Num(100)
    /\ files[id].status = "planning"

\* the plan without its updatedAt time
WithoutUpdatedAt(plan) == [f \in DOMAIN plan \ {"updatedAt"} |-> plan[f]]

\* setStepCompletion(plan, k, true) followed by update(plan) at time clock
CompleteStep(plan, k, clock) ==
  updatedPlan(setStepCompletion(plan, k, TRUE).plan, clock)

\* C5: setStepCompletion(plan, k, true) a second time in a row leaves the
\* plan as the first call left it: the step update alone changes nothing,
\* and the step update with the store's update changes updatedAt at most.
C5_Idempotent ==
  /\ [][ \A sh \in DOMAIN mem :
           ( /\ Did(sh, "set") /\ last[sh].found /\ last[sh].c
             /\ last'[sh] = last[sh] )
             => mem'[sh] = mem[sh] ]_vars
  /\ [](\A sh \in DOMAIN mem : \A k \in StepArgs : \A later \in now..MaxTime :
          (mem[sh] # NoPlan /\ setStepCompletion(mem[sh], k, TRUE).found)
            => /\ setStepCompletion(setStepCompletion(mem[sh], k, TRUE).plan,
                                    k, TRUE).plan
                    = setStepCompletion(mem[sh], k, TRUE).plan
               /\ WithoutUpdatedAt(CompleteStep(CompleteStep(mem[sh], k, now),
                                                k, later))
                    = WithoutUpdatedAt(CompleteStep(mem[sh], k, now)))

\* an invocation has just set a step completed that was not
C5_Witness ==
  \E sh \in DOMAIN mem :
    /\ Did(sh, "set") /\ last[sh].found /\ last[sh].c
    /\ mem[sh].steps[last[sh].index.n].completed
    /\ mem[sh].progress.completedSteps < CompletedCount(mem[sh].steps)

\* C6: save(p) followed by load(p.id) returns a plan equal to p in every
\* field, createdAt and updatedAt equal as timestamps.
C6_RoundTrip ==
  saved # NoPlan => loadPlan(files, saved.id) = saved

\* C9: every persisted plan's cached progress agrees with its steps:
\* completedSteps = count of completed steps and totalSteps = len(steps).
C9_PersistedProgressAgrees ==
  \A id \in DOMAIN files :
    LET plan == loadPlan(files, id)
    IN /\ plan.progress.completedSteps = CompletedCount(plan.steps)
       /\ plan.progress.totalSteps = Len(plan.steps)

\* a persisted plan with a completed step, written by update
C9_Witness ==
  \E id \in DOMAIN files :
    /\ CompletedCount(files[id].steps) >= 1
    /\ CompletedCount(files[id].steps) < Len(files[id].steps)

\* the step number k selects: fields of the plan other than steps, the
\* number of steps, every other step and every other field of step k are
\* the same in before and after
OnlyFlagOfStep(before, after, k) ==
  /\ DOMAIN after = DOMAIN before
  /\ \A f \in DOMAIN before \ {"steps"} : after[f] = before[f]
  /\ Len(after.steps) = Len(before.steps)
  /\ \A i \in DOMAIN before.steps :
       /\ i # k => after.steps[i] = before.steps[i]
       /\ DOMAIN after.steps[i] = DOMAIN before.steps[i]
       /\ \A f \in DOMAIN before.steps[i] \ {"completed"} :
            after.steps[i][f] = before.steps[i][f]

\* C10: setStepCompletion(plan, k, c) changes the completed flag of step k
\* and nothing else of the plan object; the update that follows changes
\* progress and updatedAt and nothing else.
C10_OnlySelectedStep ==
  [][ \A sh \in DOMAIN mem :
        /\ (mem[sh] # NoPlan /\ last'[sh].op = "set")
             => /\ last'[sh].found
                     => /\ OnlyFlagOfStep(mem[sh], mem'[sh], last'[sh].index.n)
                        /\ mem'[sh].steps[last'[sh].index.n].completed = last'[sh].c
                /\ ~last'[sh].found => mem'[sh] = mem[sh]
        /\ (mem[sh] # NoPlan /\ last'[sh].op = "update")
             => \A f \in DOMAIN mem[sh] \ {"progress", "updatedAt"} :
                  mem'[sh][f] = mem[sh][f] ]_vars

\* an invocation has just changed a step's flag: the plan it holds differs
\* from the persisted one in that flag
C10_Witness ==
  \E sh \in DOMAIN mem :
    /\ Did(sh, "set") /\ last[sh].found
    /\ mem[sh].id \in DOMAIN files
    /\ mem[sh].steps[last[sh].index.n].completed
         # files[mem[sh].id].steps[last[sh].index.n].completed
    /\ Len(mem[sh].steps) > 1

\* C2: whatever the AI call does (it throws, answers no JSON, answers JSON
\* without steps, answers JSON with any steps value), generate returns a
\* plan with totalSteps = len(steps) >= 1, completedSteps = 0 and
\* percentage = 0.
C2_GeneratedProgress ==
  \A sh \in DOMAIN mem :
    Did(sh, "generate") =>
      /\ ~last[sh].thrown
      /\ last[sh].plan.progress.totalSteps = Len(last[sh].plan.steps)
      /\ Len(last[sh].plan.steps) >= 1
      /\ last[sh].plan.progress.completedSteps = 0
      /\ last[sh].plan.progress.percentage = Num(0)

\* the AI strategy failed: the call threw, the text holds no JSON, the JSON
\* does not decode, or the response lacks the steps field
AiFailed(ai) ==
  \/ ai.throws
  \/ jsonMatch(ai.text) = Null
  \/ JsonParse(jsonMatch(ai.text).a) = Thrown
  \/ Get(JsonParse(jsonMatch(ai.text).a), "steps") = Undefined

IsString(v) == v.t = "string"
IsArray(v) == v.t = "array"

\* every field the ProjectPlan and PlanStep types require is there, with a
\* value of its type
FullyPopulated(plan) ==
  /\ plan.status \in {"planning", "in-progress", "completed", "paused"}
  /\ IsString(plan.description)
  /\ plan.createdAt.t = "Date" /\ plan.updatedAt.t = "Date"
  /\ IsString(plan.overview.projectType)
  /\ IsString(plan.overview.estimatedTime)
  /\ plan.overview.complexity \in {Str("low"), Str("medium"), Str("high")}
  /\ IsArray(plan.fileStructure.directories) /\ IsArray(plan.fileStructure.files)
  /\ IsArray(plan.dependencies.npm) /\ IsArray(plan.dependencies.apis)
  /\ IsArray(plan.dependencies.services)
  /\ \A i \in DOMAIN plan.steps :
       /\ IsString(plan.steps[i].title)
       /\ IsString(plan.steps[i].description)
       /\ IsArray(plan.steps[i].files)
       /\ IsArray(plan.steps[i].dependencies)
       /\ plan.steps[i].completed \in BOOLEAN
  /\ plan.progress.percentage.t = "number"

\* C3: generate never ends in an exception; when the AI strategy fails it
\* returns the fallback plan; and what it returns is always a valid,
\* fully-populated ProjectPlan.
C3_GenerateNeverFails ==
  \A sh \in DOMAIN mem :
    Did(sh, "generate") =>
      /\ ~last[sh].thrown
      /\ AiFailed(last[sh].ai)
           => last[sh].plan = createFallbackPlan(last[sh].task, last[sh].options,
                                                 last[sh].at)
      /\ FullyPopulated(last[sh].plan)

\* the step number the command line gave is none of 1..len(steps)
StepOutOfRange(l) ==
  /\ l.outcome \notin {"plan not found", "shown"}
  /\ l.step # Undefined
  /\ l.step = NaN \/ l.step.n \notin 1..Len(l.before.steps)

\* C7: with a step number outside 1..len(steps) the progress handler
\* reports that the step is not found, changes no step's completed flag and
\* leaves the persisted plans as they are.
C7_StepNotFound ==
  /\ [](\A sh \in DOMAIN mem :
          (Did(sh, "progress") /\ StepOutOfRange(last[sh]))
            => /\ last[sh].outcome = "step not found"
               /\ last[sh].after = last[sh].before)
  /\ [][ (\E sh \in DOMAIN mem :
            /\ last'[sh].op = "progress" /\ last'[sh] # last[sh]
            /\ StepOutOfRange(last'[sh]))
           => files' = files ]_vars

\* the handler was given step 99, and a plan is persisted
C7_Witness ==
  \E sh \in DOMAIN mem :
    /\ Did(sh, "progress") /\ StepOutOfRange(last[sh])
    /\ last[sh].step = Num(99)
    /\ last[sh].outcome = "step not found"
    /\ files # <<>>

\* C8: right after a successful setStepCompletion, load(plan.id) returns the
\* plan with the step's new completed flag and the recomputed progress.
C8_StepPersisted ==
  \A sh \in DOMAIN mem :
    (Did(sh, "progress") /\ last[sh].outcome = "updated")
      => /\ loadPlan(files, last[sh].after.id) # Null
         /\ loadPlan(files, last[sh].after.id).steps[last[sh].index].completed
              = last[sh].newStatus
         /\ loadPlan(files, last[sh].after.id).progress.completedSteps
              = CompletedCount(last[sh].after.steps)

\* the plan an invocation has just built, by generatePlan or createBasicPlan
Built(sh) == last[sh].op \in {"generate", "basic"}

\* the plan is a fallback plan: createBasicPlan built it, or generatePlan
\* did after the AI strategy failed
BuiltFallback(sh) ==
  \/ Did(sh, "basic")
  \/ Did(sh, "generate") /\ AiFailed(last[sh].ai)

\* C11: for every plan the generator can produce and every stepOrder in
\* 1..len(steps), setStepCompletion(plan, stepOrder, c) finds a step, and
\* the step whose flag it sets is one whose order field equals stepOrder.
C11_StepByOrder ==
  \A sh \in DOMAIN mem :
    Built(sh) =>
      \A k \in 1..Len(last[sh].plan.steps) :
        LET plan == last[sh].plan
            r == setStepCompletion(plan, NumberToChars(k), TRUE)
        IN /\ r.found
           /\ \A i \in DOMAIN plan.steps :
                r.plan.steps[i].completed # plan.steps[i].completed
                  => plan.steps[i].order = k

\* C12: in every plan generate returns, step i (1-based) has order = i and
\* id = stepId(i), so orders and ids are pairwise distinct; what the
\* external model supplied as id or order is not used.
C12_OrdersAndIds ==
  \A sh \in DOMAIN mem :
    Did(sh, "generate") =>
      \A i \in DOMAIN last[sh].plan.steps :
        /\ last[sh].plan.steps[i].order = i
        /\ last[sh].plan.steps[i].id = <<"step-", i>>

\* C13: load(id), when there is no file for id or its text does not decode,
\* raises no error and returns null.
C13_LoadNull ==
  [][ \A sh \in DOMAIN mem :
        ( /\ last'[sh].op = "load" /\ last'[sh] # last[sh]
          /\ \/ last'[sh].id \notin DOMAIN files
             \/ files[last'[sh].id] = Corrupt )
          => /\ ~last'[sh].thrown
             /\ ~last'[sh].found
             /\ mem'[sh] = NoPlan ]_vars

\* a load of a document that does not decode found nothing
C13_Witness ==
  \E sh \in DOMAIN mem :
    /\ Did(sh, "load") /\ ~last[sh].found /\ ~last[sh].thrown
    /\ last[sh].id \in DOMAIN files
    /\ files[last[sh].id] = Corrupt

\* C14: list() returns one plan per document that decodes and no other,
\* each the plan of its document; documents that do not decode are left
\* out; and adjacent results a, b have a.createdAt >= b.createdAt.
C14_ListSorted ==
  [][ \A sh \in DOMAIN mem :
        (last'[sh].op = "list" /\ last'[sh] # last[sh])
          => LET r == last'[sh].result
                 decoding == {id \in DOMAIN files : files[id] # Corrupt}
             IN /\ Len(r) = Cardinality(decoding)
                /\ {r[i].id : i \in DOMAIN r} = decoding
                /\ \A i \in DOMAIN r : JsonStringify(r[i]) = files[r[i].id]
                /\ \A i \in 1..(Len(r) - 1) :
                     r[i].createdAt.ms >= r[i + 1].createdAt.ms ]_vars

\* a listing of two plans, the newer first, over a directory of three
\* documents of which one does not decode
C14_Witness ==
  \E sh \in DOMAIN mem :
    /\ Did(sh, "list")
    /\ Len(last[sh].result) = 2
    /\ last[sh].result[1].createdAt.ms > last[sh].result[2].createdAt.ms
    /\ Cardinality(DOMAIN files) = 3
    /\ {last[sh].result[i].id : i \in {1, 2}}
         = {id \in DOMAIN files : files[id] # Corrupt}

\* the first whitespace-delimited token of s
RECURSIVE UpToSpace(_)
UpToSpace(s) ==
  IF s = <<>> \/ IsSpace(Head(s)) THEN <<>>
  ELSE <<Head(s)>> \o UpToSpace(Tail(s))

FirstWord(s) == UpToSpace(SkipSpaces(s))

\* case-insensitively, the title contains term, or term contains the
\* title's first whitespace-delimited token
MatchesTitle(title, term) ==
  \/ Includes(ToLowerCase(title), ToLowerCase(term))
  \/ Includes(ToLowerCase(term), FirstWord(ToLowerCase(title)))

\* C15: findByTitle(term) returns exactly the stored plans whose title,
\* case-insensitively, contains term or whose first whitespace-delimited
\* token is contained in term.
C15_FindByTitle ==
  \A sh \in DOMAIN mem :
    Did(sh, "find") =>
      LET r == last[sh].result
          matching == {id \in DOMAIN files :
                         /\ files[id] # Corrupt
                         /\ MatchesTitle(files[id].title, last[sh].term)}
      IN /\ {r[i].id : i \in DOMAIN r} = matching
         /\ Len(r) = Cardinality(matching)

\* the characters a plan id may hold
IdChars == {LowerCase[i] : i \in DOMAIN LowerCase} \cup Digits \cup {"-"}

\* C16: for every title, also the empty one, one of special characters only
\* and one longer than 30 characters, the plan id is non-empty and holds
\* characters of [a-z0-9-] only.
C16_PlanIdSafe ==
  \A sh \in DOMAIN mem :
    Built(sh) =>
      LET text == IdText(last[sh].plan.id)
      IN /\ text # <<>>
         /\ \A i \in DOMAIN text : text[i] \in IdChars

\* a plan built for a title longer than the slug limit, its slug cut there
C16_Witness ==
  \E sh \in DOMAIN mem :
    /\ Built(sh)
    /\ Len(last[sh].task) > 30
    /\ Len(last[sh].plan.id[1]) = 30
    /\ last[sh].plan.title = last[sh].task

\* C17: a fallback plan has exactly 3 steps, Setup, Core Implementation and
\* Testing in that order, or exactly 4 steps when projectType = "fullstack".
C17_FallbackSteps ==
  \A sh \in DOMAIN mem :
    BuiltFallback(sh) =>
      LET steps == last[sh].plan.steps
          projectType == last[sh].options.projectType
      IN /\ Len(steps) \in {3, 4}
         /\ projectType = Str("fullstack") => Len(steps) = 4
         /\ projectType = Str("backend")
              => /\ Len(steps) = 3
                 /\ steps[2].title = Str("Core Implementation")

\* the npm list the claim gives for a framework
NpmFor(framework) ==
  IF framework = Undefined THEN <<"express">>
  ELSE CASE framework.cs = <<"r","e","a","c","t">> -> <<"express", "react", "react-dom">>
         [] framework.cs = <<"v","u","e">> -> <<"express", "vue">>
         [] framework.cs = <<"a","n","g","u","l","a","r">> -> <<"express", "@angular/core">>
         [] framework.cs = <<"n","e","x","t">> -> <<"express", "next", "react">>
         [] OTHER -> <<"express">>

\* C18: a fallback plan's npm list is the one of the requested framework:
\* express, react, react-dom for react; express, vue for vue; express,
\* @angular/core for angular; express, next, react for next; express alone
\* for an unrecognized or absent framework.
C18_FallbackDependencies ==
  \A sh \in DOMAIN mem :
    (BuiltFallback(sh) /\ last[sh].options.framework # Chars(<<"R","e","a","c","t">>))
      => last[sh].plan.dependencies.npm = Arr(NpmFor(last[sh].options.framework))

\* C19: loading the configuration raises no error, and when there is no
\* config document it returns defaultOutputDir = the current working
\* directory, maxPlans = 50 and no API key.
C19_ConfigDefault ==
  [][ \A sh \in DOMAIN mem :
        (last'[sh].op = "loadConfig" /\ last'[sh] # last[sh])
          => /\ ~last'[sh].thrown
             /\ configFile = NoFile
                  => /\ last'[sh].config.defaultOutputDir = Str("cwd")
                     /\ last'[sh].config.maxPlans = Num(50)
                     /\ last'[sh].config.geminiApiKey = Undefined ]_vars

\* the configuration was loaded while there is no config document
C19_Witness ==
  \E sh \in DOMAIN mem :
    /\ Did(sh, "loadConfig")
    /\ configFile = NoFile
    /\ last[sh].config.maxPlans = Num(50)

\* a key is set: a non-empty string
KeySet(v) == v.t = "string" /\ v.s # ""

\* the key the config document holds, Undefined when there is no document
\* or it does not decode
PersistedKey ==
  IF configFile \in {NoFile, Corrupt} THEN Undefined ELSE configFile.geminiApiKey

\* C20: ensureApiKey returns the persisted config's key when that is set,
\* whatever the environment holds; otherwise the environment's
\* GEMINI_API_KEY when that is set; otherwise it raises the error.
C20_KeyLookupOrder ==
  [][ \A sh \in DOMAIN mem :
        (last'[sh].op = "ensureApiKey" /\ last'[sh] # last[sh])
          => last'[sh].key =
               IF KeySet(PersistedKey) THEN PersistedKey
               ELSE IF KeySet(envKey) THEN envKey
               ELSE Thrown ]_vars

\* the persisted key was returned although the environment holds one too
C20_Witness ==
  \E sh \in DOMAIN mem :
    /\ Did(sh, "ensureApiKey")
    /\ KeySet(PersistedKey) /\ KeySet(envKey)
    /\ last[sh].key = PersistedKey
    /\ last[sh].key # envKey

\* C21: when no API key is available, neither in the config nor in the
\* environment, the create command makes no AI call and does not fail: the
\* plan it builds is the basic plan, and where its writes succeed it saves
\* that plan and exits with code 0.
C21_NoKeyFallsBack ==
  \A sh \in DOMAIN mem :
    (Did(sh, "createRun") /\ last[sh].key = Thrown)
      => LET l == last[sh]
             basic == createBasicPlan(l.task, l.options, l.at)
         IN /\ ~l.aiCalled
            /\ l.disk[1] = "written" => l.plan = basic
            /\ (l.disk[1] = "written" /\ l.disk[2] = "written")
                 => /\ l.exit = 0
                    /\ files = savePlan(l.before, basic)
                    /\ loadPlan(files, basic.id) \notin {Null, Thrown}
                    /\ loadPlan(files, basic.id).steps = basic.steps

\* without a key, a run that the service would have answered has saved the
\* basic plan and exited with code 0
C21_Witness ==
  \E sh \in DOMAIN mem :
    /\ Did(sh, "createRun") /\ last[sh].key = Thrown
    /\ last[sh].ai # AiThrows
    /\ ~last[sh].noAiFlag
    /\ last[sh].exit = 0
    /\ saved = createBasicPlan(last[sh].task, last[sh].options, last[sh].at)
    /\ last[sh].plan.id \in DOMAIN files

\* the write of the plan file failed in a run of the create command
PlanWriteFailed(l) ==
  l.op = "createRun" /\ l.disk[1] = "written" /\ l.disk[2] # "written"

\* C22: a storage write failure in save or update is not swallowed: it
\* propagates out of save/update to the command, which exits with code 1,
\* and the write is not tried again; a read failure in load or list never
\* propagates.
C22_WriteFailurePropagates ==
  \A sh \in DOMAIN mem :
    LET l == last[sh]
    IN /\ PlanWriteFailed(l)
            => /\ savePlanOn(l.before, l.plan, Tail(l.disk)).thrown
               /\ l.exit = 1
               /\ files = writePlanFile(l.before, l.plan, l.disk[2])
       /\ (l.op = "createRun" /\ l.disk[1] # "written") => l.exit = 1
       /\ (l.op = "updateRun" /\ l.disk[1] # "written")
            => /\ l.thrown
               /\ files = writePlanFile(l.before, l.plan, l.disk[1])
       /\ l.op = "load" => ~l.thrown
       /\ l.op = "list"
            => \A i \in DOMAIN l.result :
                 /\ l.result[i].id \in DOMAIN files
                 /\ files[l.result[i].id] # Corrupt

\* a create whose plan write was refused has exited with code 1 and left no
\* plan file, although a second write would have succeeded
C22_Witness ==
  \E sh \in DOMAIN mem :
    /\ PlanWriteFailed(last[sh])
    /\ last[sh].disk = <<"written", "refused", "written">>
    /\ last[sh].exit = 1
    /\ files = <<>>

\* C23: no partial-success state is persisted: after every run of the
\* create command either the plan it generated is written in full under its
\* id (and the run succeeded), or the persisted plans and the content of
\* each are exactly what they were before the command.
C23_NoPartialState ==
  \A sh \in DOMAIN mem :
    Did(sh, "createRun")
      => LET l == last[sh]
         IN \/ files = l.before
            \/ /\ l.exit = 0
               /\ l.plan # NoPlan
               /\ files = savePlan(l.before, l.plan)
               /\ loadPlan(files, l.plan.id) \notin {Null, Thrown}

\* C28: run with --no-ai, the create command creates the basic plan without
\* AI generation: it does not ask for an API key, does not call the AI
\* planner, and the plan it builds and saves is createBasicPlan's.
C28_NoAiOption ==
  \A sh \in DOMAIN mem :
    (Did(sh, "createRun") /\ last[sh].noAiFlag /\ last[sh].disk[1] = "written")
      => LET l == last[sh]
         IN /\ ~l.keyAsked
            /\ ~l.aiCalled
            /\ l.plan = createBasicPlan(l.task, l.options, l.at)

\* C24: every update(plan) sets updatedAt to the current time, so over any
\* sequence of updates updatedAt does not decrease, in the plan object and
\* in its document, and is never earlier than createdAt, while createdAt
\* and id do not change.
C24_UpdatedAtAdvances ==
  [][ \A sh \in DOMAIN mem :
        (last'[sh].op = "update" /\ saved' # NoPlan /\ mem[sh] # NoPlan)
          => LET before == mem[sh]
                 after == mem'[sh]
                 doc == loadPlan(files', after.id)
             IN /\ after.updatedAt = DateOf(now)
                /\ after.updatedAt.ms >= before.updatedAt.ms
                /\ after.updatedAt.ms >= after.createdAt.ms
                /\ after.createdAt = before.createdAt
                /\ after.id = before.id
                /\ doc.updatedAt = after.updatedAt
                /\ doc.createdAt = before.createdAt
                /\ before.id \in DOMAIN files
                     => doc.updatedAt.ms >= loadPlan(files, before.id).updatedAt.ms
    ]_vars

\* an update has left a plan whose updatedAt is later than its createdAt
C24_Witness ==
  \E sh \in DOMAIN mem :
    /\ Did(sh, "update") /\ saved # NoPlan /\ saved = mem[sh]
    /\ mem[sh].updatedAt.ms > mem[sh].createdAt.ms
    /\ loadPlan(files, mem[sh].id).updatedAt = mem[sh].updatedAt

\* the response text is one plan object that decodes and maps, with
\* commentary (any characters) before and/or after it
OnePlanObject(l) ==
  /\ ~l.ai.throws
  /\ Cardinality({i \in DOMAIN l.ai.text : l.ai.text[i].k = "json"}) = 1
  /\ \E i \in DOMAIN l.ai.text :
       /\ l.ai.text[i].k = "json"
       /\ parseAIResponseTry(<<l.ai.text[i]>>, l.task, l.options, l.at) # Thrown

\* the plan mapped from the one object in the response text
PlanOfObject(l) ==
  LET i == CHOOSE i \in DOMAIN l.ai.text : l.ai.text[i].k = "json"
  IN parseAIResponseTry(<<l.ai.text[i]>>, l.task, l.options, l.at)

\* C25: whenever the response is one valid JSON plan object preceded and/or
\* followed by commentary, which may contain brace characters, the plan
\* returned is the one mapped from that object, not the fallback.
C25_ExtractsPlanObject ==
  \A sh \in DOMAIN mem :
    (Did(sh, "generate") /\ OnePlanObject(last[sh]))
      => /\ ~last[sh].thrown
         /\ last[sh].plan = PlanOfObject(last[sh])

\* the response text decodes: the object JSON.parse returns for it
Decodes(l) ==
  /\ ~l.ai.throws
  /\ jsonMatch(l.ai.text) # Null
  /\ JsonParse(jsonMatch(l.ai.text).a) # Thrown

Decoded(l) == JsonParse(jsonMatch(l.ai.text).a)

\* v, or d where v is missing
DefaultTo(v, d) == IF v = Undefined THEN d ELSE v

\* C26: when the AI response decodes, each missing field of it is defaulted
\* in the resulting plan: overview.projectType is the response's value, else
\* the caller's projectType option, else "fullstack"; estimatedTime "TBD";
\* complexity "medium"; title the task text; every missing array field
\* (fileStructure.directories/files, dependencies.npm/apis/services, a
\* step's files/dependencies) the empty array.
C26_MissingFieldsDefaulted ==
  \A sh \in DOMAIN mem :
    (Did(sh, "generate") /\ Decodes(last[sh]))
      => LET l == last[sh]
             r == Decoded(l)
             plan == l.plan
             empty == Arr(<<>>)
             overview == Get(r, "overview")
             fileStructure == Get(r, "fileStructure")
             dependencies == Get(r, "dependencies")
             steps == Get(r, "steps")
         IN /\ ~l.thrown
            /\ plan.overview.projectType
                 = DefaultTo(GetOpt(overview, "projectType"),
                             DefaultTo(l.options.projectType, Str("fullstack")))
            /\ plan.overview.estimatedTime
                 = DefaultTo(GetOpt(overview, "estimatedTime"), Str("TBD"))
            /\ plan.overview.complexity
                 = DefaultTo(GetOpt(overview, "complexity"), Str("medium"))
            /\ plan.title = DefaultTo(Get(r, "title"), Chars(l.task)).cs
            /\ plan.fileStructure.directories
                 = DefaultTo(GetOpt(fileStructure, "directories"), empty)
            /\ plan.fileStructure.files
                 = DefaultTo(GetOpt(fileStructure, "files"), empty)
            /\ plan.dependencies.npm = DefaultTo(GetOpt(dependencies, "npm"), empty)
            /\ plan.dependencies.apis = DefaultTo(GetOpt(dependencies, "apis"), empty)
            /\ plan.dependencies.services
                 = DefaultTo(GetOpt(dependencies, "services"), empty)
            /\ (steps.t = "array"
                  /\ \A i \in DOMAIN steps.a : steps.a[i].t = "object")
                 => /\ Len(plan.steps) = Len(steps.a)
                    /\ \A i \in DOMAIN steps.a :
                         /\ plan.steps[i].files
                              = DefaultTo(Get(steps.a[i], "files"), empty)
                         /\ plan.steps[i].dependencies
                              = DefaultTo(Get(steps.a[i], "dependencies"), empty)

\* C29 as stated: given both --complete and --incomplete, the progress
\* command reports the conflict and returns without changing any step's
\* completed flag or the plan's progress.
C29_ConflictReported ==
  \A sh \in DOMAIN mem :
    (Did(sh, "progress") /\ last[sh].complete /\ last[sh].incomplete)
      => /\ last[sh].outcome = "conflict"
         /\ last[sh].after = last[sh].before

\* C29, amended: given both --complete and --incomplete, the progress
\* command never updates a step: it ends with "plan not found", with the
\* progress display (--show), with "step not found" exactly when the step
\* number given is out of range, and otherwise reports the conflict; the
\* plan it selected, flags and progress, is left as it was.
C29_ConflictNeverUpdates ==
  \A sh \in DOMAIN mem :
    (Did(sh, "progress") /\ last[sh].complete /\ last[sh].incomplete)
      => LET l == last[sh]
         IN /\ l.outcome \in {"plan not found", "shown", "step not found", "conflict"}
            /\ l.outcome = "step not found" <=> StepOutOfRange(l)
            /\ l.outcome # "plan not found"
                 => /\ l.after = l.before
                    /\ reportedProgress(l.after) = reportedProgress(l.before)

\* both flags with --step 1 of a plan that has the step: the conflict is
\* reported
C29_Witness ==
  \E sh \in DOMAIN mem :
    /\ Did(sh, "progress") /\ last[sh].complete /\ last[sh].incomplete
    /\ last[sh].step = Num(1)
    /\ last[sh].outcome = "conflict"
    /\ last[sh].after = last[sh].before

\* C30: after setApiKey(k) with a non-empty k, ensureApiKey returns k
\* whatever GEMINI_API_KEY holds, and the config's defaultOutputDir and
\* maxPlans are the values they had before setApiKey.
C30_SetApiKeyKeepsConfig ==
  [][ \A sh \in DOMAIN mem :
        ( /\ last'[sh].op = "setApiKey" /\ last'[sh] # last[sh]
          /\ KeySet(last'[sh].key) )
          => /\ ensureApiKey(configFile', envKey') = last'[sh].key
             /\ loadConfig(configFile').geminiApiKey = last'[sh].key
             /\ loadConfig(configFile').defaultOutputDir
                  = loadConfig(configFile).defaultOutputDir
             /\ loadConfig(configFile').maxPlans = loadConfig(configFile).maxPlans
    ]_vars

\* a key was set in a config whose maxPlans had been edited, with another
\* key in the environment
C30_Witness ==
  \E sh \in DOMAIN mem :
    /\ Did(sh, "setApiKey") /\ KeySet(last[sh].key)
    /\ KeySet(envKey) /\ envKey # last[sh].key
    /\ last[sh].before.maxPlans = Num(10)
    /\ loadConfig(configFile).maxPlans = Num(10)
    /\ ensureApiKey(configFile, envKey) = last[sh].key

\* C27: last writer wins: when two invocations have each loaded the same
\* persisted plan, changed a different step's completed flag and called
\* update, under every interleaving the plan file after a write equals in
\* full the record that write wrote, which holds its writer's change and
\* never the two changes merged.
C27_LastWriterWins ==
  [][ \A sh \in DOMAIN mem :
        (last[sh].op = "updateOpen" /\ last'[sh].op = "updateWrite")
          => /\ files'[mem[sh].id] = JsonStringify(mem[sh])
             /\ loadPlan(files', mem[sh].id) = mem[sh] ]_vars

====
